---- MODULE Spec2Model ----
(***************************************************************************)
(* A model of src/scan.py: the LAN scanner that reads its target subnet    *)
(* from ip.txt, sweeps it with ARP on a timer from a worker thread, diffs  *)
(* each sweep against the previous one and reloads ip.txt when its mtime   *)
(* changes.                                                                *)
(*                                                                         *)
(* The main (GUI) thread runs one handler at a time: Scanner.__init__,     *)
(* then the slots start_scan (scan timer), check_ip_file (watch timer),    *)
(* update (finished_scan signal) and the lambda clearing self.scanning     *)
(* (QThread.finished).  The two signals are emitted from the worker thread *)
(* towards receivers living in the main thread, so they are queued in the  *)
(* main thread's event queue in emission order.  ip.txt is written by an   *)
(* external process, also between two file accesses of one handler.        *)
(***************************************************************************)
EXTENDS Integers, Sequences, FiniteSets, TLC

\* ---------------------------------------------------------------- bounds
\* At most this many ARP replies are collected in one sweep.
MaxReplies == 2
\* The external writer writes ip.txt at most this many times.
MaxWrites == 2
\* The interval policy is tabulated for host counts 0..MaxHosts.
MaxHosts == 1100

\* ------------------------------------------------------ program constants
MAX_HOSTS_WARNING == 4096
WATCH_INTERVAL == 1000

VARIABLES
    phase,          \* "init" (before Scanner()), "running", "exited"
    exit_code,      \* the process's exit status, -1 while it runs
    ip_file,        \* ip.txt: [exists, text, mtime]
    network,        \* self.network
    my_ip,          \* self.my_ip
    hosts,          \* self.hosts
    last_ip_mtime,  \* self.last_ip_mtime, -1 for None
    devices,        \* self.devices: the keys of the dict, in insertion order
    scanning,       \* self.scanning
    threads,        \* the ScanThreads whose run() has not returned
    queue,          \* queued signal deliveries of the main thread
    timer_interval, \* interval self.timer was started with, -1: not started
    watch_interval, \* interval self.watch_timer was started with, -1: not started
    status,         \* what status_label shows
    console,        \* [INIT]/[WARN]/[ERROR]/[INFO] lines the last step logged
    diff,           \* [ME]/[NEW]/[ON]/[OFF] lines the last step logged: <<tag, ip>>
    baseline,       \* self.devices as the last step found it
    warned,         \* a [WARN] line has been logged since the process started
    routed,         \* update() calls since the last sweep was launched
    last_op         \* the step taken last, and its outcome

vars == <<phase, exit_code, ip_file, network, my_ip, hosts, last_ip_mtime,
          devices, scanning, threads, queue, timer_interval, watch_interval,
          status, console, diff, baseline, warned, routed, last_op>>

\* ------------------------------------------------------------ data
Range(s) == {s[i] : i \in 1..Len(s)}

SeqsUpTo(S, n) == UNION {[1..k -> S] : k \in 0..n}

NoAddr == <<>>
NoNetwork == [addr |-> NoAddr, prefix |-> -1]

\* The hosts that may answer an ARP request.
Responders == {<<10, 0, 0, 5>>, <<10, 0, 0, 9>>, <<10, 0, 1, 7>>}

\* A text is a sequence of tokens: junk, or a substring that matches the
\* pattern \d+\.\d+\.\d+\.\d+/\d+ (whether or not it is a valid interface).
Junk == [kind |-> "junk", ip |-> NoAddr, prefix |-> 0]
Cidr(ip, p) == [kind |-> "cidr", ip |-> ip, prefix |-> p]

Texts ==
    { <<Junk>>,
      <<Junk, Cidr(<<10, 0, 0, 5>>, 24), Junk>>,
      <<Cidr(<<10, 0, 0, 5>>, 20)>>,
      <<Cidr(<<10, 0, 1, 7>>, 19), Cidr(<<10, 0, 0, 5>>, 24)>>,
      <<Cidr(<<10, 0, 0, 300>>, 24)>> }

Pow2(n) == 2 ^ n

Min(a, b) == IF a < b THEN a ELSE b
Max(a, b) == IF a > b THEN a ELSE b

\* The number of host bits of a /p network that fall into octet i (1..4).
HostBitsIn(i, p) == Max(0, Min(8, (32 - p) - 8 * (4 - i)))

\* ip_interface(...).network.network_address: the host bits cleared.
NetworkAddress(ip, p) ==
    [i \in 1..4 |-> ip[i] - (ip[i] % Pow2(HostBitsIn(i, p)))]

InNetwork(ip, net) ==
    net.prefix >= 0 /\ NetworkAddress(ip, net.prefix) = net.addr

\* ------------------------------------------------------------ ip.txt
Written(f, t) == [exists |-> TRUE, text |-> t, mtime |-> f.mtime + 1]
Removed(f) == [exists |-> FALSE, text |-> <<>>, mtime |-> f.mtime]

\* ip.txt after the external writer did nothing, or one thing.
FileAfter(f) ==
    {f} \cup {Removed(f)}
        \cup (IF f.mtime < MaxWrites THEN {Written(f, t) : t \in Texts} ELSE {})

Failure(lines) ==
    [ok |-> FALSE, network |-> NoNetwork, my_ip |-> NoAddr, hosts |-> -1,
     mtime |-> -1, lines |-> lines]

load_network_from_file(f) ==
    IF ~f.exists
    THEN Failure(<<"ERROR">>)
    ELSE LET hits == {i \in 1..Len(f.text) : f.text[i].kind = "cidr"} IN
         IF hits = {}
         THEN Failure(<<"ERROR">>)
         ELSE LET m == f.text[CHOOSE i \in hits : \A j \in hits : i <= j] IN
              IF (\E i \in 1..4 : m.ip[i] > 255) \/ m.prefix > 32
              THEN Failure(<<"ERROR">>)
              ELSE [ok |-> TRUE,
                    network |-> [addr |-> NetworkAddress(m.ip, m.prefix),
                                 prefix |-> m.prefix],
                    my_ip |-> m.ip,
                    hosts |-> Pow2(32 - m.prefix),
                    mtime |-> -1,
                    lines |-> <<>>]

\* safe_load_ip warning from MAX_HOSTS_WARNING on, not above it.
safe_load_ip_ge(fread, fstat) ==
    LET r == load_network_from_file(fread) IN
    IF ~r.ok
    THEN r
    ELSE LET lines == IF r.hosts >= MAX_HOSTS_WARNING
                      THEN <<"INIT", "WARN">>
                      ELSE <<"INIT">> IN
         IF ~fstat.exists
         THEN Failure(lines \o <<"ERROR">>)
         ELSE [r EXCEPT !.mtime = fstat.mtime, !.lines = lines]

\* safe_load_ip with ip.txt being fread when it is read and fstat when its
\* mtime is taken.  ok = FALSE is sys.exit(1).
safe_load_ip(fread, fstat) ==
    LET r == load_network_from_file(fread) IN
    IF ~r.ok
    THEN r
    ELSE LET lines == IF r.hosts > MAX_HOSTS_WARNING
                      THEN <<"INIT", "WARN">>
                      ELSE <<"INIT">> IN
         IF ~fstat.exists
         THEN Failure(lines \o <<"ERROR">>)
         ELSE [r EXCEPT !.mtime = fstat.mtime, !.lines = lines]

\* get_scan_interval with < for <= at the first breakpoint.
get_scan_interval_lt(h) ==
    IF h < 256 THEN 1000
    ELSE IF h <= 1024 THEN 2000
    ELSE 4000

get_scan_interval(h) ==
    IF h <= 256 THEN 1000
    ELSE IF h <= 1024 THEN 2000
    ELSE 4000

\* ------------------------------------------------------------ scanning
NewThread(net) == [network |-> net, stage |-> "started"]

\* start_scan without its busy check.
start_scan_unguarded(net) ==
    /\ scanning' = TRUE
    /\ threads' = Append(threads, NewThread(net))

start_scan(net) ==
    IF scanning
    THEN UNCHANGED <<scanning, threads>>
    ELSE /\ scanning' = TRUE
         /\ threads' = Append(threads, NewThread(net))

\* The replies srp() may collect for a sweep of net: the psrc of each.
Answers(net) ==
    SeqsUpTo({ip \in Responders : InNetwork(ip, net)}, MaxReplies)

\* The dict ScanThread.run builds: a later reply of a known psrc keeps the
\* key's place.
RECURSIVE run_devices(_)
run_devices(answers) ==
    IF answers = <<>>
    THEN <<>>
    ELSE LET n == Len(answers)
             d == run_devices(SubSeq(answers, 1, n - 1)) IN
         IF answers[n] \in Range(d) THEN d ELSE Append(d, answers[n])

\* A queued signal delivery.  The signals carry the dict alone; swept, the
\* network the emitting thread was created with, is kept for the observer.
UpdateEvent(d, net) == [kind |-> "update", devices |-> d, swept |-> net]
FinishedEvent == [kind |-> "finished", devices |-> <<>>, swept |-> NoNetwork]

\* ------------------------------------------------------------ update
\* Tag testing the known devices before my_ip.
Tag_known_first(ip, me, known) ==
    IF ip \in Range(known) THEN "ON"
    ELSE IF ip = me THEN "ME"
    ELSE "NEW"

\* Tag with the [NEW] and [ON] branches swapped.
Tag_swapped(ip, me, known) ==
    IF ip = me THEN "ME"
    ELSE IF ip \notin Range(known) THEN "ON"
    ELSE "NEW"

Tag(ip, me, known) ==
    IF ip = me THEN "ME"
    ELSE IF ip \notin Range(known) THEN "NEW"
    ELSE "ON"

OnLines(new_devices, me, known) ==
    [i \in 1..Len(new_devices) |->
        <<Tag(new_devices[i], me, known), new_devices[i]>>]

\* The [OFF] loop without its membership test.
Gone_always(ip, new_devices) == TRUE

Gone(ip, new_devices) == ip \notin Range(new_devices)

OffLines(new_devices, known) ==
    LET gone == SelectSeq(known, LAMBDA ip : Gone(ip, new_devices)) IN
    [i \in 1..Len(gone) |-> <<"OFF", gone[i]>>]

\* update merging the sweep into self.devices instead of replacing it.
update_merge(new_devices) ==
    /\ diff' = OnLines(new_devices, my_ip, devices) \o OffLines(new_devices, devices)
    /\ devices' = new_devices
                    \o SelectSeq(devices, LAMBDA ip : ip \notin Range(new_devices))

update(new_devices) ==
    /\ diff' = OnLines(new_devices, my_ip, devices) \o OffLines(new_devices, devices)
    /\ devices' = new_devices

\* ------------------------------------------------------------ states
Init ==
    /\ phase = "init"
    /\ exit_code = -1
    /\ ip_file \in {[exists |-> TRUE, text |-> t, mtime |-> 0] : t \in Texts}
                     \cup {[exists |-> FALSE, text |-> <<>>, mtime |-> 0]}
    /\ network = NoNetwork
    /\ my_ip = NoAddr
    /\ hosts = -1
    /\ last_ip_mtime = -1
    /\ devices = <<>>
    /\ scanning = FALSE
    /\ threads = <<>>
    /\ queue = <<>>
    /\ timer_interval = -1
    /\ watch_interval = -1
    /\ status = [network |-> NoNetwork, my_ip |-> NoAddr]
    /\ console = <<>>
    /\ diff = <<>>
    /\ baseline = <<>>
    /\ warned = FALSE
    /\ routed = 0
    /\ last_op = "none"

process == <<phase, exit_code>>
subnet == <<network, my_ip, hosts, status>>
timers == <<timer_interval, watch_interval>>

\* What a step leaves behind for the observer: its name, what it logged, and
\* self.devices as it found it.
Logged(op, lines) ==
    /\ last_op' = op
    /\ console' = lines
    /\ warned' = (warned \/ "WARN" \in Range(lines))
    /\ baseline' = devices

\* sys.exit(1)
Exit ==
    /\ phase' = "exited"
    /\ exit_code' = 1

\* self.network, self.my_ip, self.hosts = ...; self.update_status()
SetSubnet(r) ==
    /\ network' = r.network
    /\ my_ip' = r.my_ip
    /\ hosts' = r.hosts
    /\ status' = [network |-> r.network, my_ip |-> r.my_ip]

\* __init__ starting the timers and the first scan before loading ip.txt.
Startup_scan_first ==
    /\ phase = "init"
    /\ \E fstat \in FileAfter(ip_file) :
         LET r == safe_load_ip(ip_file, fstat) IN
         /\ ip_file' = fstat
         /\ timer_interval' = get_scan_interval(r.hosts)
         /\ watch_interval' = WATCH_INTERVAL
         /\ start_scan(r.network)
         /\ IF r.ok
            THEN /\ SetSubnet(r)
                 /\ last_ip_mtime' = r.mtime
                 /\ phase' = "running"
                 /\ Logged("startup", r.lines)
                 /\ routed' = 0
                 /\ UNCHANGED exit_code
            ELSE /\ Exit
                 /\ Logged("startup_exit", r.lines)
                 /\ UNCHANGED <<subnet, last_ip_mtime, routed>>
    /\ diff' = <<>>
    /\ UNCHANGED <<devices, queue>>

\* __init__ without its closing start_scan(): the first sweep waits for a tick.
Startup_no_scan ==
    /\ phase = "init"
    /\ \E fstat \in FileAfter(ip_file) :
         LET r == safe_load_ip(ip_file, fstat) IN
         /\ ip_file' = fstat
         /\ IF r.ok
            THEN /\ SetSubnet(r)
                 /\ last_ip_mtime' = r.mtime
                 /\ timer_interval' = get_scan_interval(r.hosts)
                 /\ watch_interval' = WATCH_INTERVAL
                 /\ phase' = "running"
                 /\ Logged("startup", r.lines)
                 /\ UNCHANGED exit_code
            ELSE /\ Exit
                 /\ Logged("startup_exit", r.lines)
                 /\ UNCHANGED <<subnet, last_ip_mtime, timers>>
    /\ diff' = <<>>
    /\ UNCHANGED <<devices, queue, scanning, threads, routed>>

\* Scanner.__init__
Startup ==
    /\ phase = "init"
    /\ \E fstat \in FileAfter(ip_file) :
         LET r == safe_load_ip(ip_file, fstat) IN
         /\ ip_file' = fstat
         /\ IF r.ok
            THEN /\ SetSubnet(r)
                 /\ last_ip_mtime' = r.mtime
                 /\ timer_interval' = get_scan_interval(r.hosts)
                 /\ watch_interval' = WATCH_INTERVAL
                 /\ start_scan(r.network)
                 /\ phase' = "running"
                 /\ Logged("startup", r.lines)
                 /\ routed' = 0
                 /\ UNCHANGED exit_code
            ELSE /\ Exit
                 /\ Logged("startup_exit", r.lines)
                 /\ UNCHANGED <<subnet, last_ip_mtime, timers, scanning, threads, routed>>
    /\ diff' = <<>>
    /\ UNCHANGED <<devices, queue>>

\* A reload that also forgets the known devices.
Reload_clearing(fread, fstat) ==
    LET r == safe_load_ip(fread, fstat) IN
    /\ ip_file' = fstat
    /\ IF r.ok
       THEN /\ SetSubnet(r)
            /\ last_ip_mtime' = r.mtime
            /\ Logged("reload", <<"INFO">> \o r.lines)
            /\ devices' = <<>>
            /\ UNCHANGED process
       ELSE /\ Exit
            /\ Logged("reload_exit", <<"INFO">> \o r.lines)
            /\ UNCHANGED <<subnet, last_ip_mtime, devices>>

\* The reload of check_ip_file: fread is ip.txt when its text is read, fstat
\* when its mtime is recorded.
Reload(fread, fstat) ==
    LET r == safe_load_ip(fread, fstat) IN
    /\ ip_file' = fstat
    /\ IF r.ok
       THEN /\ SetSubnet(r)
            /\ last_ip_mtime' = r.mtime
            /\ Logged("reload", <<"INFO">> \o r.lines)
            /\ UNCHANGED process
       ELSE /\ Exit
            /\ Logged("reload_exit", <<"INFO">> \o r.lines)
            /\ UNCHANGED <<subnet, last_ip_mtime>>
    /\ UNCHANGED devices

\* check_ip_file served only between sweeps, as when the sweep ran in the
\* main thread.
check_ip_file_between_sweeps ==
    /\ phase = "running"
    /\ ~scanning
    /\ IF ~ip_file.exists
       THEN /\ Logged("watch_error", <<>>)
            /\ UNCHANGED <<process, ip_file, subnet, last_ip_mtime, devices>>
       ELSE IF ip_file.mtime = last_ip_mtime
       THEN /\ Logged("watch_same", <<>>)
            /\ UNCHANGED <<process, ip_file, subnet, last_ip_mtime, devices>>
       ELSE \E fread \in FileAfter(ip_file) :
                \E fstat \in FileAfter(fread) : Reload(fread, fstat)
    /\ diff' = <<>>
    /\ UNCHANGED <<scanning, threads, queue, timers, routed>>

\* check_ip_file taking the mtime outside its try: a failing stat ends the
\* process like any failure of the reload.
check_ip_file_stat_fatal ==
    /\ phase = "running"
    /\ IF ~ip_file.exists
       THEN /\ Exit
            /\ Logged("watch_error", <<"ERROR">>)
            /\ UNCHANGED <<ip_file, subnet, last_ip_mtime, devices>>
       ELSE IF ip_file.mtime = last_ip_mtime
       THEN /\ Logged("watch_same", <<>>)
            /\ UNCHANGED <<process, ip_file, subnet, last_ip_mtime, devices>>
       ELSE \E fread \in FileAfter(ip_file) :
                \E fstat \in FileAfter(fread) : Reload(fread, fstat)
    /\ diff' = <<>>
    /\ UNCHANGED <<scanning, threads, queue, timers, routed>>

\* The watch timer's slot.
check_ip_file ==
    /\ phase = "running"
    /\ IF ~ip_file.exists
       THEN /\ Logged("watch_error", <<>>)
            /\ UNCHANGED <<process, ip_file, subnet, last_ip_mtime, devices>>
       ELSE IF ip_file.mtime = last_ip_mtime
       THEN /\ Logged("watch_same", <<>>)
            /\ UNCHANGED <<process, ip_file, subnet, last_ip_mtime, devices>>
       ELSE \E fread \in FileAfter(ip_file) :
                \E fstat \in FileAfter(fread) : Reload(fread, fstat)
    /\ diff' = <<>>
    /\ UNCHANGED <<scanning, threads, queue, timers, routed>>

\* The scan timer's slot.
ScanTick ==
    /\ phase = "running"
    /\ start_scan(network)
    /\ Logged(IF scanning THEN "tick_dropped" ELSE "tick_launched", <<>>)
    /\ routed' = IF scanning THEN routed ELSE 0
    /\ diff' = <<>>
    /\ UNCHANGED <<process, ip_file, subnet, last_ip_mtime, devices, queue, timers>>

\* A thread whose finished signal is queued ahead of its finished_scan.
SweepRun_finished_first ==
    /\ phase = "running"
    /\ \E i \in 1..Len(threads) :
         /\ threads[i].stage = "started"
         /\ \E answers \in Answers(threads[i].network) :
              queue' = queue \o <<FinishedEvent,
                                  UpdateEvent(run_devices(answers), threads[i].network)>>
         /\ threads' = SubSeq(threads, 1, i - 1) \o SubSeq(threads, i + 1, Len(threads))
    /\ Logged("sweep", <<>>)
    /\ diff' = <<>>
    /\ UNCHANGED <<process, ip_file, subnet, last_ip_mtime, devices, scanning,
                   timers, routed>>

\* ScanThread.run, up to and including finished_scan.emit.
SweepRun ==
    /\ phase = "running"
    /\ \E i \in 1..Len(threads) :
         /\ threads[i].stage = "started"
         /\ \E answers \in Answers(threads[i].network) :
              queue' = Append(queue, UpdateEvent(run_devices(answers), threads[i].network))
         /\ threads' = [threads EXCEPT ![i].stage = "emitted"]
    /\ Logged("sweep", <<>>)
    /\ diff' = <<>>
    /\ UNCHANGED <<process, ip_file, subnet, last_ip_mtime, devices, scanning,
                   timers, routed>>

\* run() returns: QThread emits finished.
ThreadFinished ==
    /\ phase = "running"
    /\ \E i \in 1..Len(threads) :
         /\ threads[i].stage = "emitted"
         /\ threads' = SubSeq(threads, 1, i - 1) \o SubSeq(threads, i + 1, Len(threads))
    /\ queue' = Append(queue, FinishedEvent)
    /\ Logged("thread_finished", <<>>)
    /\ diff' = <<>>
    /\ UNCHANGED <<process, ip_file, subnet, last_ip_mtime, devices, scanning,
                   timers, routed>>

\* The main thread delivers finished_scan to update.
DeliverUpdate ==
    /\ phase = "running"
    /\ queue # <<>>
    /\ Head(queue).kind = "update"
    /\ update(Head(queue).devices)
    /\ queue' = Tail(queue)
    /\ Logged("update", <<>>)
    /\ routed' = routed + 1
    /\ UNCHANGED <<process, ip_file, subnet, last_ip_mtime, scanning, threads, timers>>

\* The finished slot replaying a scan tick: it clears the flag and starts
\* the next sweep at once.
DeliverFinished_relaunch ==
    /\ phase = "running"
    /\ queue # <<>>
    /\ Head(queue).kind = "finished"
    /\ scanning' = TRUE
    /\ threads' = Append(threads, NewThread(network))
    /\ queue' = Tail(queue)
    /\ Logged("finished", <<>>)
    /\ routed' = 0
    /\ diff' = <<>>
    /\ UNCHANGED <<process, ip_file, subnet, last_ip_mtime, devices, timers>>

\* The main thread delivers finished to the lambda.
DeliverFinished ==
    /\ phase = "running"
    /\ queue # <<>>
    /\ Head(queue).kind = "finished"
    /\ scanning' = FALSE
    /\ queue' = Tail(queue)
    /\ Logged("finished", <<>>)
    /\ diff' = <<>>
    /\ UNCHANGED <<process, ip_file, subnet, last_ip_mtime, devices, threads,
                   timers, routed>>

\* The external writer rewrites ip.txt.
FileWrite ==
    /\ phase = "running"
    /\ ip_file.mtime < MaxWrites
    /\ \E t \in Texts : ip_file' = Written(ip_file, t)
    /\ Logged("file_write", <<>>)
    /\ diff' = <<>>
    /\ UNCHANGED <<process, subnet, last_ip_mtime, devices, scanning, threads,
                   queue, timers, routed>>

\* ip.txt is removed (or becomes unreadable).
FileRemove ==
    /\ phase = "running"
    /\ ip_file.exists
    /\ ip_file' = Removed(ip_file)
    /\ Logged("file_remove", <<>>)
    /\ diff' = <<>>
    /\ UNCHANGED <<process, subnet, last_ip_mtime, devices, scanning, threads,
                   queue, timers, routed>>

Next ==
    \/ Startup
    \/ check_ip_file
    \/ ScanTick
    \/ SweepRun
    \/ ThreadFinished
    \/ DeliverUpdate
    \/ DeliverFinished
    \/ FileWrite
    \/ FileRemove

Spec == Init /\ [][Next]_vars

\* The event loop keeps running: both QTimers keep firing, a started QThread
\* runs to the end of run(), and queued signals are delivered.
Fairness ==
    /\ WF_vars(ScanTick)
    /\ WF_vars(check_ip_file)
    /\ WF_vars(SweepRun)
    /\ WF_vars(ThreadFinished)
    /\ WF_vars(DeliverUpdate)
    /\ WF_vars(DeliverFinished)

SpecFair == Spec /\ Fairness

\* ------------------------------------------------- the interval policy alone
\* self.timer.start(self.get_scan_interval()) for every host count.
PolicyInputs == (0..MaxHosts) \cup {2048, 4096, 4097, 8192, 65536}

PolicyInit ==
    /\ phase = "policy"
    /\ exit_code = -1
    /\ ip_file = [exists |-> FALSE, text |-> <<>>, mtime |-> 0]
    /\ network = NoNetwork
    /\ my_ip = NoAddr
    /\ hosts \in PolicyInputs
    /\ last_ip_mtime = -1
    /\ devices = <<>>
    /\ scanning = FALSE
    /\ threads = <<>>
    /\ queue = <<>>
    /\ timer_interval = -1
    /\ watch_interval = -1
    /\ status = [network |-> NoNetwork, my_ip |-> NoAddr]
    /\ console = <<>>
    /\ diff = <<>>
    /\ baseline = <<>>
    /\ warned = FALSE
    /\ routed = 0
    /\ last_op = "none"

PolicyStart ==
    /\ phase = "policy"
    /\ timer_interval = -1
    /\ timer_interval' = get_scan_interval(hosts)
    /\ Logged("timer_start", <<>>)
    /\ UNCHANGED <<process, ip_file, subnet, last_ip_mtime, devices, scanning,
                   threads, queue, watch_interval, diff, routed>>

PolicyNext == PolicyStart

SpecPolicy == PolicyInit /\ [][PolicyNext]_vars

\* ------------------------------------------------------------ claims
\* The tags of the specification are the log prefixes of update():
\* SELF is [ME], NEW is [NEW], PRESENT is [ON], ABSENT is [OFF].

\* The step in which the main thread runs update() on a sweep's result.
UpdateStep ==
    /\ phase = "running"
    /\ queue # <<>>
    /\ Head(queue).kind = "update"
    /\ last_op' = "update"

LinesAbout(d, ip) == {i \in 1..Len(d) : d[i][2] = ip}
TagsOf(d, ip) == {d[i][1] : i \in LinesAbout(d, ip)}

\* C1: in every reachable state at most one sweep is in flight, whatever the
\* interleaving of scan ticks, watch ticks, reloads and sweep completions.
C1_AtMostOneSweep == Len(threads) <= 1

\* A scan tick has just been dropped while a sweep was in flight.
C1_Witness ==
    /\ last_op = "tick_dropped"
    /\ Len(threads) = 1
    /\ threads[1].stage = "started"

\* The classification rule of the specification.
RuleTags(ip, fresh, base, me) ==
    IF ip \in Range(fresh)
    THEN IF ip = me THEN {"ME"}
         ELSE IF ip \notin Range(base) THEN {"NEW"}
         ELSE {"ON"}
    ELSE IF ip \in Range(base) THEN {"OFF"}
    ELSE {}

\* C2: update() tags every address by the rule: in fresh and my_ip -> SELF; in
\* fresh, not my_ip, not in the baseline -> NEW; in fresh, not my_ip, in the
\* baseline -> PRESENT; in the baseline and not in fresh -> ABSENT.
C2_DiffRule ==
    [][UpdateStep =>
         \A ip \in Responders \cup {my_ip} :
             TagsOf(diff', ip) = RuleTags(ip, Head(queue).devices, devices, my_ip)]_vars

\* The second cycle of the end-to-end scenario: baseline {10.0.0.5, 10.0.0.9},
\* fresh {10.0.0.5}, self 10.0.0.5.
C2_Witness ==
    /\ last_op = "update"
    /\ my_ip = <<10, 0, 0, 5>>
    /\ baseline = << <<10, 0, 0, 5>>, <<10, 0, 0, 9>> >>
    /\ devices = << <<10, 0, 0, 5>> >>
    /\ diff = << <<"ME", <<10, 0, 0, 5>> >>, <<"OFF", <<10, 0, 0, 9>> >> >>

\* C3: one cycle's diff has exactly one line for every address of
\* baseline \cup fresh and no line for any other address.
C3_DiffComplete ==
    [][UpdateStep =>
         LET union == Range(devices) \cup Range(Head(queue).devices) IN
         /\ \A i \in 1..Len(diff') : diff'[i][2] \in union
         /\ \A ip \in union : Cardinality(LinesAbout(diff', ip)) = 1]_vars

\* A cycle with an address only in the baseline, one only in fresh and one
\* in both.
C3_Witness ==
    /\ last_op = "update"
    /\ Range(baseline) \ Range(devices) # {}
    /\ Range(devices) \ Range(baseline) # {}
    /\ Range(devices) \cap Range(baseline) # {}
    /\ Len(diff) = 3

\* C4: when fresh holds the addresses of the baseline S, every address of S
\* is tagged PRESENT, except my_ip which is tagged SELF, nothing is tagged NEW
\* or ABSENT, and the new baseline is S.
C4_DiffIdempotent ==
    [][(UpdateStep /\ Range(Head(queue).devices) = Range(devices)) =>
         /\ \A ip \in Range(devices) :
                TagsOf(diff', ip) = IF ip = my_ip THEN {"ME"} ELSE {"ON"}
         /\ \A i \in 1..Len(diff') : diff'[i][1] \notin {"NEW", "OFF"}
         /\ Range(devices') = Range(devices)]_vars

\* A cycle whose sweep found the two addresses of the baseline again.
C4_Witness ==
    /\ last_op = "update"
    /\ Range(devices) = Range(baseline)
    /\ Len(devices) = 2
    /\ Len(diff) = 2

\* C5: a completed cycle replaces the baseline by the sweep's result, and
\* nothing else changes the baseline; an address of the baseline missing from
\* the sweep is reported ABSENT in that cycle, and an address in neither is
\* not reported at all.
C5_FullReplacement ==
    [][/\ UpdateStep =>
            /\ devices' = Head(queue).devices
            /\ \A ip \in Range(devices) \ Range(Head(queue).devices) :
                   TagsOf(diff', ip) = {"OFF"}
            /\ \A ip \in Responders \ (Range(devices) \cup Range(Head(queue).devices)) :
                   LinesAbout(diff', ip) = {}
       /\ ~UpdateStep => devices' = devices]_vars

\* A cycle that drops an address of the baseline while another one answered.
C5_Witness ==
    /\ last_op = "update"
    /\ devices # <<>>
    /\ \E ip \in Range(baseline) :
           /\ ip \notin Range(devices)
           /\ <<"OFF", ip>> \in Range(diff)

ReloadFailed ==
    /\ Len(console) >= 2
    /\ console[1] = "INFO"
    /\ console[Len(console)] = "ERROR"

\* C7: a resolution failure during a reload is logged and does not stop the
\* process: the scheduler keeps running with the previous subnet.
C7_ReloadFailureSurvived ==
    ReloadFailed => (phase = "running" /\ exit_code = -1)

\* C8: after a successful reload the scan timer's period is the interval
\* policy applied to the active subnet's address count.
C8_PeriodFollowsReload ==
    last_op = "reload" => timer_interval = get_scan_interval(hosts)

\* C9: when the initial configuration cannot be resolved the process exits
\* with status 1 after logging the error, with no timer started and no sweep
\* launched; no sweep ever runs without a resolved subnet.
C9_StartupFailureFatal ==
    /\ (phase # "init" /\ network = NoNetwork) =>
           /\ phase = "exited"
           /\ exit_code = 1
           /\ console # <<>>
           /\ console[Len(console)] = "ERROR"
           /\ timer_interval = -1
           /\ watch_interval = -1
           /\ ~scanning
           /\ threads = <<>>
           /\ queue = <<>>
    /\ \A i \in 1..Len(threads) : threads[i].network # NoNetwork

\* The process has exited from __init__.
C9_Witness ==
    /\ phase = "exited"
    /\ network = NoNetwork
    /\ exit_code = 1

\* C10: the policy returns 1000 up to 256 addresses, 2000 above 256 and up to
\* 1024, 4000 above 1024; it is monotonically non-decreasing.
C10_IntervalPolicy ==
    timer_interval # -1 =>
        /\ hosts <= 256 => timer_interval = 1000
        /\ (256 < hosts /\ hosts <= 1024) => timer_interval = 2000
        /\ hosts > 1024 => timer_interval = 4000
        /\ \A m \in PolicyInputs :
               m <= hosts => get_scan_interval(m) <= timer_interval

\* The timer started for 257 addresses.
C10_Witness ==
    /\ phase = "policy"
    /\ hosts = 257
    /\ timer_interval = 2000

\* The steps that run the scan timer's slot.
TickStep == last_op' \in {"tick_dropped", "tick_launched"}

\* C11: a successful __init__ launches the first sweep itself, on the network
\* it resolved, before any timer tick; a scan tick that fires while a sweep is
\* in flight is dropped.
C11_StartupSweep ==
    [][/\ (phase = "init" /\ phase' = "running") =>
              /\ scanning'
              /\ threads' = <<NewThread(network')>>
              /\ network' # NoNetwork
              /\ queue' = <<>>
       /\ (TickStep /\ threads # <<>>) =>
              /\ last_op' = "tick_dropped"
              /\ threads' = threads]_vars

\* __init__ has just returned with its sweep in flight.
C11_Witness ==
    /\ last_op = "startup"
    /\ scanning
    /\ threads = <<NewThread(network)>>

\* The steps that run the watch timer's slot.
WatchStep == last_op' \in {"watch_error", "watch_same", "reload", "reload_exit"}

\* C12: in every state with a sweep in flight the watch timer's slot can run
\* (its check, and the reload on a change), without waiting for the sweep.
C12_WatchNotBlocked == (phase = "running" /\ scanning) => ENABLED check_ip_file

\* A changed ip.txt has been reloaded while the sweep launched on the old
\* network has not yet answered.
C12_Witness ==
    /\ last_op = "reload"
    /\ scanning
    /\ Len(threads) = 1
    /\ threads[1].stage = "started"
    /\ threads[1].network # network

\* The steps that load ip.txt successfully.
LoadStep == last_op' \in {"startup", "reload"}

Warnings(lines) == {i \in 1..Len(lines) : lines[i] = "WARN"}

\* C13 as stated: over a run the advisory is logged at most once; it is never
\* logged for 4096 addresses or fewer; a larger subnet is still made active.
C13_AdvisoryOnce ==
    [][/\ (warned /\ LoadStep) => Warnings(console') = {}
       /\ LoadStep => (Warnings(console') # {} => hosts' > MAX_HOSTS_WARNING)
       /\ LoadStep => network' # NoNetwork]_vars

\* C13, amended: the advisory is logged once by every successful load (at
\* startup and on each reload) of a subnet of more than 4096 addresses, and
\* by no load of a subnet of 4096 or fewer; the subnet is made active whatever
\* its size, and the next sweep launched targets it.
C13_AdvisoryPerLoad ==
    [][/\ LoadStep =>
              /\ Cardinality(Warnings(console')) =
                     IF hosts' > MAX_HOSTS_WARNING THEN 1 ELSE 0
              /\ network' # NoNetwork
              /\ status'.network = network'
       /\ (TickStep /\ ~scanning) => threads' = Append(threads, NewThread(network))]_vars

\* A reload of a subnet of 8192 addresses has logged the advisory and the
\* subnet is active.
C13_Witness ==
    /\ last_op = "reload"
    /\ hosts = 8192
    /\ console = <<"INFO", "INIT", "WARN">>
    /\ network.prefix = 19

\* C14: a scan tick that finds the busy flag set changes nothing (flag,
\* subnet, baseline, sweep in flight, pending deliveries); a sweep is launched
\* by exactly the steps that run start_scan with the flag clear (a scan tick
\* or __init__), one sweep each, and by no other step: a dropped tick is not
\* replayed when the sweep completes.
C14_DroppedTickNoOp ==
    [][/\ (TickStep /\ scanning) =>
              UNCHANGED <<scanning, network, my_ip, hosts, devices, threads,
                          queue, last_ip_mtime, phase>>
       /\ (TickStep /\ ~scanning) => Len(threads') = Len(threads) + 1
       /\ Len(threads') > Len(threads) =>
              /\ ~scanning
              /\ last_op' \in {"startup", "tick_launched"}
              /\ Len(threads') = Len(threads) + 1]_vars

\* A tick has been dropped after the thread returned, its two signals still
\* undelivered.
C14_Witness ==
    /\ last_op = "tick_dropped"
    /\ scanning
    /\ threads = <<>>
    /\ Len(queue) = 2

\* C15: the busy flag is cleared only after the results of the sweep in
\* flight went through update(), once; so between the launch of a sweep and
\* the launch of the next one the baseline is replaced exactly once.
C15_RoutedBeforeIdle ==
    [][/\ (scanning /\ ~scanning') => routed = 1
       /\ (phase = "running" /\ Len(threads') > Len(threads)) => routed = 1
       /\ routed' <= 1
       /\ routed' # routed => (last_op' = "update" \/ Len(threads') > Len(threads))]_vars

\* The flag has just been cleared, after a sweep that found hosts.
C15_Witness ==
    /\ last_op = "finished"
    /\ ~scanning
    /\ routed = 1
    /\ devices # <<>>

\* C16: a watch tick on which ip.txt's mtime cannot be read changes nothing:
\* subnet, last observed mtime, baseline, busy flag and process are as before
\* and no reload is tried; a watch tick on which the mtime is read and differs
\* from the last observed one tries the reload, one on which it is the same
\* does not.
C16_StatFailureTolerated ==
    [][/\ (WatchStep /\ ~ip_file.exists) =>
              /\ last_op' = "watch_error"
              /\ console' = <<>>
              /\ UNCHANGED <<network, my_ip, hosts, status, last_ip_mtime,
                             devices, scanning, threads, queue, phase,
                             exit_code, ip_file>>
       /\ (WatchStep /\ ip_file.exists /\ ip_file.mtime # last_ip_mtime) =>
              /\ last_op' \in {"reload", "reload_exit"}
              /\ console' # <<>>
              /\ console'[1] = "INFO"
       /\ (WatchStep /\ ip_file.exists /\ ip_file.mtime = last_ip_mtime) =>
              /\ last_op' = "watch_same"
              /\ UNCHANGED <<network, my_ip, hosts, last_ip_mtime>>]_vars

\* A watch tick has just failed to read the mtime, with devices known and a
\* sweep in flight.
C16_Witness ==
    /\ last_op = "watch_error"
    /\ phase = "running"
    /\ ~ip_file.exists
    /\ devices # <<>>
    /\ scanning

\* C17: when the hosts a sweep found reach update(), the active subnet
\* (whose my_ip tags SELF and whose baseline the result is diffed against and
\* becomes) is the subnet the sweep was launched on.
C17_ClassifiedAgainstSweptSubnet ==
    [][(UpdateStep /\ Head(queue).devices # <<>>) =>
           Head(queue).swept = network]_vars

\* C18: no change of ip.txt is lost.  check_ip_file reloads only when the
\* mtime differs from the last observed one, so once the two are equal the
\* active subnet stays as it is until the next write; if the writer stops
\* there, the subnet must already be the resolution of the (valid) content.
C18_NoLostChange ==
    (/\ phase = "running"
     /\ ip_file.exists
     /\ ip_file.mtime = last_ip_mtime
     /\ load_network_from_file(ip_file).ok) =>
        /\ network = load_network_from_file(ip_file).network
        /\ my_ip = load_network_from_file(ip_file).my_ip

\* C19: under fair scheduling of the sweep worker, the timers and the event
\* loop, the busy flag never stays set forever: every launched sweep
\* completes and its completion clears the flag.
C19_BusyFlagClears == scanning ~> ~scanning

====
